---- MODULE Spec2Model ----
(***************************************************************************)
(* A model of the multipurpose_gpt gateway: the filename classifier        *)
(* (app/utils/file_utils.py), the /ask request handler (app/api/routes.py) *)
(* with its four extraction pipelines (app/services/*_service.py), and the *)
(* retrying model caller ask_gpt (app/services/gpt_service.py).            *)
(*                                                                         *)
(* Strings the code inspects character by character (filenames, queries,   *)
(* model names) are sequences of one-character strings; a Python value     *)
(* that may be None, a str or a tuple is a tagged record.                  *)
(***************************************************************************)
EXTENDS Integers, Sequences, FiniteSets, TLC

VARIABLES
    \* --- extract_ext_category applied on its own ---
    clsSegs,        \* the dot-separated segments the filename was built from
    clsName,        \* the filename handed to extract_ext_category
    clsResult,      \* what it returned (NotCalled before the call)
    \* --- the backend (OpenAI client), shared by every caller ---
    failPlan,       \* the errors responses.create raises, call by call; then it succeeds
    createCalls,    \* responses.create requests issued
    uploadCalls,    \* files.create requests issued
    deleteCalls,    \* files.delete requests issued
    remoteFiles,    \* handles that exist on the backend's file storage
    deletedCount,   \* files.delete requests that succeeded
    \* --- one ask_gpt call ---
    gpc,            \* position in ask_gpt
    gArgs,          \* its arguments
    content_parts,  \* ask_gpt's local `content_parts`
    attempt,        \* ask_gpt's local `attempt`
    uploaded_file_id, \* ask_gpt's local `uploaded_file_id`
    gPending,       \* how the try/except block is leaving, while `finally` runs
    sleeps,         \* time.sleep calls made
    bases,          \* ask_gpt's local `base` at each of them, in milliseconds
    delay,          \* the `delay` of the latest of them, in milliseconds
    staleAttempts,  \* requests issued whose input referenced a deleted handle
    gOutcome,       \* what ask_gpt returned or raised
    \* --- one POST /ask request ---
    rpc,            \* position in the handler
    req,            \* the form fields as received
    query,          \* handler local `query`
    file,           \* handler local `file`
    category,       \* handler local `category`
    fileRead,       \* whether `await file.read()` ran
    pipeline,       \* the pipelines invoked for the request, in order
    ppc,            \* position inside the running pipeline
    pPending,       \* how the pipeline's body is leaving: "return", "raise" or "none"
    pErr,           \* the error a pipeline's model call raised
    tmpFiles,       \* temporary files and directories that exist on disk
    toolCalls,      \* external tool and transcription invocations, by kind
    faults,         \* local faults met: the files whose unlink raised, "no soffice",
                    \* and how ffmpeg or soffice failed
    response,       \* the HTTP response
    \* --- a second POST /ask request, served by the same event loop ---
    rpc2            \* position of its handler

clsVars == <<clsSegs, clsName, clsResult>>
backendVars == <<failPlan, createCalls, uploadCalls, deleteCalls, remoteFiles, deletedCount>>
gptVars == <<gpc, gArgs, content_parts, attempt, uploaded_file_id, gPending, sleeps, bases, delay,
             staleAttempts, gOutcome>>
reqVars == <<rpc, req, query, file, category, fileRead, pipeline, ppc, pPending, pErr, tmpFiles, toolCalls, faults, response>>
loopVars == <<rpc2>>
vars == <<clsVars, backendVars, gptVars, reqVars, loopVars>>

-----------------------------------------------------------------------------
(* Bounds of the model.                                                    *)

\* dot-separated segments of a filename handed to the classifier
MaxSegs == 3
\* failures the backend is scripted to raise before it succeeds
MaxFail == 3
\* largest max_retries an ask_gpt call is given
MaxRetries == 2
\* scripted responses.create failures while one /ask request is served
MaxReqFail == 1

-----------------------------------------------------------------------------
(* Python values.                                                          *)

PyNone == [t |-> "None"]
PyStr(s) == [t |-> "str", s |-> s]
\* a str kept as its characters
PyChars(cs) == [t |-> "str", cs |-> cs]
PyTuple(a, b) == [t |-> "tuple", items |-> <<a, b>>]

\* Python truthiness of None / str
Truthy(v) == v.t = "str" /\ (IF "cs" \in DOMAIN v THEN v.cs # <<>> ELSE v.s # "")

-----------------------------------------------------------------------------
(* Character strings.                                                      *)

UpperToLower ==
    [A |-> "a", B |-> "b", C |-> "c", D |-> "d", E |-> "e", F |-> "f", G |-> "g",
     H |-> "h", I |-> "i", J |-> "j", K |-> "k", L |-> "l", M |-> "m", N |-> "n",
     O |-> "o", P |-> "p", Q |-> "q", R |-> "r", S |-> "s", T |-> "t", U |-> "u",
     V |-> "v", W |-> "w", X |-> "x", Y |-> "y", Z |-> "z"]

\* str.lower()
Lower(cs) ==
    [i \in 1..Len(cs) |-> IF cs[i] \in DOMAIN UpperToLower THEN UpperToLower[cs[i]] ELSE cs[i]]

\* the TLA+ string spelled by a sequence of characters
RECURSIVE Text(_)
Text(cs) == IF cs = <<>> THEN "" ELSE Head(cs) \o Text(Tail(cs))

\* str.endswith(suffix), the suffix given as text
EndsWith(cs, suffix) ==
    \E k \in 1..(Len(cs) + 1) : Text(SubSeq(cs, k, Len(cs))) = suffix

\* str.startswith(prefix), the prefix given as text
StartsWith(cs, prefix) ==
    \E k \in 0..Len(cs) : Text(SubSeq(cs, 1, k)) = prefix

\* "." in name
HasDot(cs) == \E i \in 1..Len(cs) : cs[i] = "."

\* name.rsplit(".", 1)[-1], for a name that holds a dot
AfterLastDot(cs) ==
    LET last == CHOOSE i \in 1..Len(cs) :
                    cs[i] = "." /\ \A j \in (i + 1)..Len(cs) : cs[j] # "."
    IN  SubSeq(cs, last + 1, Len(cs))

Whitespace == {" ", "\t", "\n"}

\* str.strip()
RECURSIVE LStrip(_)
LStrip(cs) == IF cs # <<>> /\ Head(cs) \in Whitespace THEN LStrip(Tail(cs)) ELSE cs
RECURSIVE RStrip(_)
RStrip(cs) ==
    IF cs # <<>> /\ cs[Len(cs)] \in Whitespace THEN RStrip(SubSeq(cs, 1, Len(cs) - 1)) ELSE cs
Strip(cs) == RStrip(LStrip(cs))

-----------------------------------------------------------------------------
(* app/utils/file_utils.py                                                 *)

VIDEO_EXTS == {"mp4", "avi", "mov", "wmv", "mpeg", "mpg", "mkv", "flv", "webm", "3gp",
               "mts", "m2ts", "vob", "rmvb"}
TEXT_EXTS == {"txt", "csv", "tsv", "log", "xml", "json", "yaml", "ini",
              "xls", "xlsx", "ods", "doc", "docx", "odt", "rtf", "ppt", "pptx", "odp",
              "pdf", "epub", "mobi", "azw", "djvu"}
AUDIO_EXTS == {"mp3", "aac", "wav", "wma", "ogg", "flac", "m4a", "aiff", "opus", "alac", "amr"}
IMAGE_EXTS == {"jpg", "jpeg", "png", "gif", "bmp", "tiff", "webp", "heic", "svg", "ico",
               "raw", "nef", "cr2", "psd", "ai", "eps"}
ARCHIVE_EXTS == {"zip", "rar", "7z", "tar", "gz", "bz2", "xz", "zst", "lzma", "iso"}

COMPOUND_ARCHIVE_EXTS == {"tar.gz", "tar.bz2", "tar.xz"}

\* the dict union (the five families are pairwise disjoint)
CATEGORY_BY_EXT ==
    [e \in VIDEO_EXTS \cup TEXT_EXTS \cup AUDIO_EXTS \cup IMAGE_EXTS \cup ARCHIVE_EXTS |->
        IF e \in ARCHIVE_EXTS THEN "archive"
        ELSE IF e \in IMAGE_EXTS THEN "image"
        ELSE IF e \in AUDIO_EXTS THEN "audio"
        ELSE IF e \in TEXT_EXTS THEN "text"
        ELSE "video"]

\* (filename or "").lower()
LoweredName(filename) == IF Truthy(filename) THEN Lower(filename.cs) ELSE <<>>

\* the compound suffixes the lowered name ends with
CompoundMatches(name) == {c \in COMPOUND_ARCHIVE_EXTS : EndsWith(name, "." \o c)}

\* extract_ext_category without str.lower(): a case-sensitive lookup
ExtractExtCategoryCaseSensitive(filename) ==
    LET name == IF Truthy(filename) THEN filename.cs ELSE <<>> IN
    IF CompoundMatches(name) # {}
    THEN PyTuple(PyStr(CHOOSE c \in CompoundMatches(name) : TRUE), PyStr("archive"))
    ELSE IF ~HasDot(name) THEN PyTuple(PyNone, PyNone)
    ELSE LET ext == Text(AfterLastDot(name)) IN
         PyTuple(PyStr(ext),
                 IF ext \in DOMAIN CATEGORY_BY_EXT
                 THEN PyStr(CATEGORY_BY_EXT[ext])
                 ELSE PyTuple(PyNone, PyNone))

\* extract_ext_category.  Its last line, `return ext, cat if cat else (None, None)`,
\* is the pair (ext, (cat if cat else (None, None))): the conditional binds tighter
\* than the comma.
ExtractExtCategory(filename) ==
    LET name == LoweredName(filename) IN
    IF CompoundMatches(name) # {}
    THEN PyTuple(PyStr(CHOOSE c \in CompoundMatches(name) : TRUE), PyStr("archive"))
    ELSE IF ~HasDot(name) THEN PyTuple(PyNone, PyNone)
    ELSE LET ext == Text(AfterLastDot(name)) IN
         PyTuple(PyStr(ext),
                 IF ext \in DOMAIN CATEGORY_BY_EXT
                 THEN PyStr(CATEGORY_BY_EXT[ext])
                 ELSE PyTuple(PyNone, PyNone))

-----------------------------------------------------------------------------
(* extract_ext_category called on filenames built from dot-separated       *)
(* segments.  Each segment carries its characters, as the caller sends     *)
(* them, and beside them its lower-case spelling, written out by hand.     *)

Pieces ==
    { [chars |-> <<>>, canon |-> ""],
      [chars |-> <<"n", "o", "t", "e", "s">>, canon |-> "notes"],
      [chars |-> <<"R", "e", "p", "o", "r", "t">>, canon |-> "report"],
      [chars |-> <<"p", "d", "f">>, canon |-> "pdf"],
      [chars |-> <<"P", "D", "F">>, canon |-> "pdf"],
      [chars |-> <<"d", "o", "c", "x">>, canon |-> "docx"],
      [chars |-> <<"m", "p", "4">>, canon |-> "mp4"],
      [chars |-> <<"M", "P", "3">>, canon |-> "mp3"],
      [chars |-> <<"p", "n", "g">>, canon |-> "png"],
      [chars |-> <<"z", "i", "p">>, canon |-> "zip"],
      [chars |-> <<"t", "a", "r">>, canon |-> "tar"],
      [chars |-> <<"g", "z">>, canon |-> "gz"],
      [chars |-> <<"G", "Z">>, canon |-> "gz"],
      [chars |-> <<"b", "z", "2">>, canon |-> "bz2"],
      [chars |-> <<"x", "z">>, canon |-> "xz"],
      [chars |-> <<"x", "y", "z">>, canon |-> "xyz"] }

\* the sequences over S of length lo..hi
SeqsBetween(S, lo, hi) == UNION {[1..n -> S] : n \in lo..hi}

\* the filename "seg1.seg2.....segn"
RECURSIVE JoinDots(_)
JoinDots(segs) ==
    IF Len(segs) = 1 THEN segs[1].chars
    ELSE segs[1].chars \o <<".">> \o JoinDots(Tail(segs))

NotCalled == [t |-> "not called"]

ClsInit ==
    /\ clsSegs \in SeqsBetween(Pieces, 0, MaxSegs)
    /\ clsName = IF clsSegs = <<>> THEN PyNone ELSE PyChars(JoinDots(clsSegs))
    /\ clsResult = NotCalled

\* result = extract_ext_category(filename)
Classify ==
    /\ clsResult = NotCalled
    /\ clsResult' = ExtractExtCategory(clsName)
    /\ UNCHANGED <<clsSegs, clsName>>
    /\ UNCHANGED <<backendVars, gptVars, reqVars, loopVars>>

-----------------------------------------------------------------------------
(* The backend: the OpenAI client's responses.create, files.create and     *)
(* files.delete.  responses.create raises the errors of failPlan, one per  *)
(* request, and answers with text from then on.                            *)

\* the HTTP statuses the scripted errors carry
StatusCodes == {400, 499, 500, 599, 600}

\* OpenAIError instances: the class, and the status the instance carries
\* (status_code of an APIStatusError, a `status` attribute otherwise; {} for none)
ErrKinds ==
    { [cls |-> "APIConnectionError", status |-> {}],
      [cls |-> "RateLimitError", status |-> {429}],
      [cls |-> "OpenAIError", status |-> {}],
      [cls |-> "OpenAIError", status |-> {503}] }
    \cup { [cls |-> "APIStatusError", status |-> {s}] : s \in StatusCodes }

NoErr == [cls |-> "", status |-> {}]

\* what the next responses.create request does
BackendReply ==
    IF createCalls < Len(failPlan)
    THEN [ok |-> FALSE, err |-> failPlan[createCalls + 1]]
    ELSE [ok |-> TRUE, err |-> NoErr]

BackendInit ==
    /\ createCalls = 0
    /\ uploadCalls = 0
    /\ deleteCalls = 0
    /\ remoteFiles = {}
    /\ deletedCount = 0

-----------------------------------------------------------------------------
(* app/services/gpt_service.py: ask_gpt                                    *)

\* _status_from_exc: status_code of an APIStatusError (RateLimitError is one), the
\* `status` attribute of any other error; the set holding it, {} for None
StatusFromExc(e) == e.status

\* _is_retryable with the 5xx range opened to every status from 400 up
IsRetryableFrom400(e) ==
    \/ e.cls \in {"APIConnectionError", "RateLimitError"}
    \/ \E s \in StatusFromExc(e) : s = 429 \/ (400 <= s /\ s <= 599)

\* _is_retryable
IsRetryable(e) ==
    \/ e.cls \in {"APIConnectionError", "RateLimitError"}
    \/ \E s \in StatusFromExc(e) : s = 429 \/ (500 <= s /\ s <= 599)

\* should_retry with one retry allowed past the ceiling
ShouldRetryPastCeiling(e) == IsRetryable(e) /\ attempt <= gArgs.max_retries

\* should_retry with the comparison off by one
ShouldRetryOffByOne(e) == IsRetryable(e) /\ attempt + 1 < gArgs.max_retries

\* should_retry = _is_retryable(e) and attempt < max_retries
ShouldRetry(e) == IsRetryable(e) /\ attempt < gArgs.max_retries

NoOutcome == [kind |-> "none", exc |-> "", retries |-> 0, cause |-> NoErr]
Returned == [kind |-> "returned", exc |-> "", retries |-> 0, cause |-> NoErr]
\* the terminal error reporting the requests made in place of the retries
RaisedCountingRequests(exc, retries, cause) ==
    [kind |-> "raised", exc |-> exc, retries |-> retries + 1, cause |-> cause]

\* an exception leaving ask_gpt: its class, the count in its message, its __cause__
Raised(exc, retries, cause) ==
    [kind |-> "raised", exc |-> exc, retries |-> retries, cause |-> cause]

\* the defaults of initial_backoff, max_backoff and jitter (1.0, 20.0, 0.25), in
\* milliseconds and hundredths
DefaultBackoff == [initial_backoff |-> 1000, max_backoff |-> 20000, jitter |-> 25]

\* the defaults, a ceiling the second retry reaches, a first delay the floor
\* lifts, and no jitter
BackoffSettings ==
    { DefaultBackoff,
      [initial_backoff |-> 1000, max_backoff |-> 1500, jitter |-> 25],
      [initial_backoff |-> 100, max_backoff |-> 20000, jitter |-> 25],
      [initial_backoff |-> 1000, max_backoff |-> 1500, jitter |-> 0] }

\* the keyword arguments of a call, its backoff settings drawn from B
GptArgsWith(B) ==
    { [query |-> c.query, hasFile |-> c.hasFile, max_retries |-> c.max_retries,
       delete_uploaded_file |-> c.delete_uploaded_file,
       initial_backoff |-> b.initial_backoff, max_backoff |-> b.max_backoff,
       jitter |-> b.jitter] :
        c \in [query : BOOLEAN, hasFile : BOOLEAN, max_retries : 0..MaxRetries,
               delete_uploaded_file : BOOLEAN],
        b \in B }

\* calls that leave the backoff settings at their defaults
GptArgs == GptArgsWith({DefaultBackoff})

\* calls with a query that set the backoff and delete what they upload
BackoffArgs ==
    {a \in GptArgsWith(BackoffSettings) : a.query /\ a.delete_uploaded_file}

GptIdle ==
    /\ gpc = "idle"
    /\ gArgs = [query |-> FALSE, hasFile |-> FALSE, max_retries |-> 0,
                delete_uploaded_file |-> FALSE,
                initial_backoff |-> 0, max_backoff |-> 0, jitter |-> 0]
    /\ content_parts = <<>>
    /\ attempt = 0
    /\ uploaded_file_id = {}
    /\ gPending = "none"
    /\ sleeps = 0
    /\ bases = <<>>
    /\ delay = 0
    /\ staleAttempts = 0
    /\ gOutcome = NoOutcome

GptStart ==
    /\ gpc = "start"
    /\ content_parts = <<>>
    /\ attempt = 0
    /\ uploaded_file_id = {}
    /\ gPending = "none"
    /\ sleeps = 0
    /\ bases = <<>>
    /\ delay = 0
    /\ staleAttempts = 0
    /\ gOutcome = NoOutcome

GptInit == gArgs \in GptArgs /\ GptStart

Min(a, b) == IF a <= b THEN a ELSE b
Max(a, b) == IF a >= b THEN a ELSE b

\* line 177 without the min: the exponential is never capped
BackoffBaseUncapped(n) == gArgs.initial_backoff * (2 ^ n)

\* line 177: base = min(max_backoff, initial_backoff * (2 ** attempt))
BackoffBase(n) == Min(gArgs.max_backoff, gArgs.initial_backoff * (2 ^ n))

\* line 178: factor = 1.0 + random.uniform(-jitter, jitter), in hundredths; the
\* two ends of the interval and its middle stand for the draw
JitterFactors == {100 - gArgs.jitter, 100, 100 + gArgs.jitter}

\* line 179: delay = max(0.1, base * factor)
BackoffDelay(base, factor) == Max(100, (base * factor) \div 100)

TextPart == [type |-> "input_text", file_id |-> {}]
FilePart(id) == [type |-> "input_file", file_id |-> {id}]

\* lines 111-137 without a file: build content_parts, reject an empty request
GptPrepareText ==
    /\ gpc = "start"
    /\ ~gArgs.hasFile
    /\ content_parts' = IF gArgs.query THEN <<TextPart>> ELSE <<>>
    /\ IF gArgs.query
       THEN gpc' = "attempt" /\ gOutcome' = gOutcome
       ELSE gpc' = "done" /\ gOutcome' = Raised("ValueError", 0, NoErr)
    /\ UNCHANGED <<gArgs, attempt, uploaded_file_id, gPending, sleeps, bases, delay, staleAttempts>>
    /\ UNCHANGED backendVars
    /\ UNCHANGED <<clsVars, reqVars, loopVars>>

\* lines 111-137 with a file: files.create stages it, or raises
GptPrepareUpload ==
    /\ gpc = "start"
    /\ gArgs.hasFile
    /\ uploadCalls' = uploadCalls + 1
    /\ \E ok \in BOOLEAN :
        IF ok
        THEN /\ remoteFiles' = remoteFiles \cup {uploadCalls + 1}
             /\ uploaded_file_id' = {uploadCalls + 1}
             /\ content_parts' = (IF gArgs.query THEN <<TextPart>> ELSE <<>>)
                                    \o <<FilePart(uploadCalls + 1)>>
             /\ gpc' = "attempt"
             /\ gOutcome' = gOutcome
        ELSE /\ UNCHANGED <<remoteFiles, uploaded_file_id>>
             /\ content_parts' = IF gArgs.query THEN <<TextPart>> ELSE <<>>
             /\ gpc' = "done"
             /\ gOutcome' = Raised("OpenAIError", 0, NoErr)
    /\ UNCHANGED <<gArgs, attempt, gPending, sleeps, bases, delay, staleAttempts>>
    /\ UNCHANGED <<failPlan, createCalls, deleteCalls, deletedCount>>
    /\ UNCHANGED <<clsVars, reqVars, loopVars>>

\* the file handles the request's input refers to
ReferencedFiles == UNION {content_parts[i].file_id : i \in 1..Len(content_parts)}

\* lines 142-181: one pass through try/except, up to the `finally`
GptAttempt ==
    /\ gpc = "attempt"
    /\ createCalls' = createCalls + 1
    /\ staleAttempts' = IF ReferencedFiles \subseteq remoteFiles
                        THEN staleAttempts ELSE staleAttempts + 1
    /\ LET reply == BackendReply IN
       IF reply.ok
       THEN /\ gPending' = "return"
            /\ gOutcome' = Returned
            /\ UNCHANGED <<attempt, sleeps, bases, delay>>
       ELSE IF ~ShouldRetry(reply.err)
       THEN /\ gPending' = "raise"
            /\ gOutcome' = Raised("RuntimeError", attempt, reply.err)
            /\ UNCHANGED <<attempt, sleeps, bases, delay>>
       ELSE /\ gPending' = "continue"
            /\ sleeps' = sleeps + 1
            /\ bases' = Append(bases, BackoffBase(attempt))
            /\ \E factor \in JitterFactors :
                    delay' = BackoffDelay(BackoffBase(attempt), factor)
            /\ attempt' = attempt + 1
            /\ gOutcome' = gOutcome
    /\ gpc' = "finally"
    /\ UNCHANGED <<gArgs, content_parts, uploaded_file_id>>
    /\ UNCHANGED <<failPlan, uploadCalls, deleteCalls, remoteFiles, deletedCount>>
    /\ UNCHANGED <<clsVars, reqVars, loopVars>>

\* where the `finally` block leaves to
AfterFinally == IF gPending = "continue" THEN "attempt" ELSE "done"

\* lines 183-192 when there is nothing to delete
GptFinallySkip ==
    /\ gpc = "finally"
    /\ ~(uploaded_file_id # {} /\ gArgs.delete_uploaded_file)
    /\ gpc' = AfterFinally
    /\ gPending' = "none"
    /\ UNCHANGED <<gArgs, content_parts, attempt, uploaded_file_id, sleeps, bases, delay, staleAttempts, gOutcome>>
    /\ UNCHANGED backendVars
    /\ UNCHANGED <<clsVars, reqVars, loopVars>>

\* the `finally` block without `else: uploaded_file_id = None`: the handle is
\* never forgotten, so every later pass deletes it again
GptFinallyDeleteNoReset ==
    /\ gpc = "finally"
    /\ uploaded_file_id # {} /\ gArgs.delete_uploaded_file
    /\ deleteCalls' = deleteCalls + 1
    /\ \E ok \in BOOLEAN :
        IF ok
        THEN /\ remoteFiles' = remoteFiles \ uploaded_file_id
             /\ deletedCount' = deletedCount + 1
        ELSE UNCHANGED <<remoteFiles, deletedCount>>
    /\ uploaded_file_id' = uploaded_file_id
    /\ gpc' = AfterFinally
    /\ gPending' = "none"
    /\ UNCHANGED <<gArgs, content_parts, attempt, sleeps, bases, delay, staleAttempts, gOutcome>>
    /\ UNCHANGED <<failPlan, createCalls, uploadCalls>>
    /\ UNCHANGED <<clsVars, reqVars, loopVars>>

\* the `finally` block without its try/except: an exception of files.delete
\* leaves ask_gpt in place of the pending result or error
GptFinallyDeleteUnguarded ==
    /\ gpc = "finally"
    /\ uploaded_file_id # {} /\ gArgs.delete_uploaded_file
    /\ deleteCalls' = deleteCalls + 1
    /\ \E ok \in BOOLEAN :
        IF ok
        THEN /\ remoteFiles' = remoteFiles \ uploaded_file_id
             /\ deletedCount' = deletedCount + 1
             /\ uploaded_file_id' = {}
             /\ gpc' = AfterFinally
             /\ gOutcome' = gOutcome
        ELSE /\ UNCHANGED <<remoteFiles, deletedCount, uploaded_file_id>>
             /\ gpc' = "done"
             /\ gOutcome' = Raised("OpenAIError", attempt, NoErr)
    /\ gPending' = "none"
    /\ UNCHANGED <<gArgs, content_parts, attempt, sleeps, bases, delay, staleAttempts>>
    /\ UNCHANGED <<failPlan, createCalls, uploadCalls>>
    /\ UNCHANGED <<clsVars, reqVars, loopVars>>

\* lines 183-192: files.delete acknowledges, or raises and is swallowed
GptFinallyDelete ==
    /\ gpc = "finally"
    /\ uploaded_file_id # {} /\ gArgs.delete_uploaded_file
    /\ deleteCalls' = deleteCalls + 1
    /\ \E ok \in BOOLEAN :
        IF ok
        THEN /\ remoteFiles' = remoteFiles \ uploaded_file_id
             /\ deletedCount' = deletedCount + 1
             /\ uploaded_file_id' = {}
        ELSE UNCHANGED <<remoteFiles, deletedCount, uploaded_file_id>>
    /\ gpc' = AfterFinally
    /\ gPending' = "none"
    /\ UNCHANGED <<gArgs, content_parts, attempt, sleeps, bases, delay, staleAttempts, gOutcome>>
    /\ UNCHANGED <<failPlan, createCalls, uploadCalls>>
    /\ UNCHANGED <<clsVars, reqVars, loopVars>>


-----------------------------------------------------------------------------
(* app/models/enums.py, app/api/routes.py: the form fields of POST /ask    *)

\* class ModelName: the values the `model` field accepts
ModelName ==
    { <<"g", "p", "t", "-", "4", "o", "-", "m", "i", "n", "i">>,
      <<"g", "p", "t", "-", "4", "o">>,
      <<"g", "p", "t", "-", "5", "-", "m", "i", "n", "i">>,
      <<"g", "p", "t", "-", "5">> }

VISION_MODELS == {"gpt-4o", "gpt-5", "gpt-4o-mini"}

\* _is_vision_model: any(name.startswith(m) for m in VISION_MODELS)
IsVisionModel(name) == \E m \in VISION_MODELS : StartsWith(name, m)

\* _normalise_query without the test for the placeholder "string"
NormaliseQueryKeepsPlaceholder(v) ==
    IF v.t = "None" THEN PyNone
    ELSE LET stripped == Strip(v.cs) IN
         IF stripped = <<>> THEN PyNone ELSE PyChars(stripped)

\* _normalise_query
NormaliseQuery(v) ==
    IF v.t = "None" THEN PyNone
    ELSE LET stripped == Strip(v.cs) IN
         IF stripped = <<>> \/ Text(Lower(stripped)) = "string" THEN PyNone
         ELSE PyChars(stripped)

\* the query texts a client sends: absent, empty, blank, the Swagger placeholder,
\* and a question
Queries ==
    { PyNone,
      PyChars(<<>>),
      PyChars(<<" ">>),
      PyChars(<<"S", "t", "r", "i", "n", "g">>),
      PyChars(<<"W", "h", "a", "t", " ", "i", "s", " ", "A", "I", "?">>) }

PieceOf(canon, cs) == [chars |-> cs, canon |-> canon]

\* the last segments of uploaded filenames
ReqExtPieces == {p \in Pieces : p.canon \in {"", "pdf", "docx", "mp4", "mp3", "png", "zip", "xyz"}}
\* the first segments of uploaded filenames
ReqStemPieces == {p \in Pieces : p.canon \in {"", "notes"}}

\* the uploaded filenames, as their segments: "notes", "", "notes.pdf", ".docx",
\* "notes.", "notes.tar.gz", ...
ReqFileSegs ==
    {<<p>> : p \in ReqStemPieces}
    \cup {<<p, e>> : p \in ReqStemPieces, e \in ReqExtPieces}
    \cup {<<PieceOf("notes", <<"n", "o", "t", "e", "s">>),
            PieceOf("tar", <<"t", "a", "r">>), PieceOf("gz", <<"g", "z">>)>>}

\* the `file` field: absent, the empty string Swagger sends, or an UploadFile with
\* its filename and whether it holds any bytes
FileFields ==
    { [kind |-> "missing", segs |-> <<>>, filename |-> PyNone, nonempty |-> FALSE],
      [kind |-> "str", segs |-> <<>>, filename |-> PyNone, nonempty |-> FALSE] }
    \cup { [kind |-> "upload", segs |-> sg, filename |-> PyChars(JoinDots(sg)), nonempty |-> b] :
             sg \in ReqFileSegs, b \in BOOLEAN }

Requests == [query : Queries, model : ModelName, file : FileFields]

NoFile == [kind |-> "missing", segs |-> <<>>, filename |-> PyNone, nonempty |-> FALSE]

NoResponse == [status |-> 0, body |-> "none", detail |-> ""]
HTTPError(status, detail) == [status |-> status, body |-> "error", detail |-> detail]
PlainTextResponse == [status |-> 200, body |-> "plain", detail |-> ""]
JSONResponse == [status |-> 200, body |-> "json", detail |-> ""]

NoToolCalls == [ffmpeg |-> 0, soffice |-> 0, transcribe |-> 0]

ReqStart ==
    /\ rpc = "recv"
    /\ query = req.query
    /\ file = req.file
    /\ category = PyNone
    /\ fileRead = FALSE
    /\ pipeline = <<>>
    /\ ppc = "idle"
    /\ pPending = "none"
    /\ pErr = NoErr
    /\ tmpFiles = {}
    /\ toolCalls = NoToolCalls
    /\ faults = {}
    /\ response = NoResponse

\* the request is the only one being served
ReqInit == req \in Requests /\ ReqStart /\ rpc2 = "idle"

\* lines 70-71: Swagger's "" or an UploadFile with an empty filename is no file
NormaliseFile(f) ==
    IF f.kind = "str" \/ (f.kind = "upload" /\ f.filename = PyChars(<<>>)) THEN NoFile ELSE f

\* `if file:` for None or an UploadFile
FilePresent(f) == f.kind = "upload"

pipeVars == <<pipeline, ppc, pPending, pErr, tmpFiles, toolCalls, faults>>

\* lines 68-97, up to `await file.read()`: normalise, the cross-field rule, the
\* speech-to-text model check, the file type check
AskValidate ==
    /\ rpc = "recv"
    /\ LET f == NormaliseFile(req.file)
           q == NormaliseQuery(req.query)
           classified == ExtractExtCategory(f.filename)
           ext == classified.items[1]
       IN
       /\ file' = f
       /\ query' = q
       /\ IF ~Truthy(q) /\ ~FilePresent(f)
          THEN /\ response' = HTTPError(422, "Provide at least query or file.")
               /\ rpc' = "done"
               /\ category' = category
          ELSE IF EndsWith(req.model, "-transcribe")
          THEN /\ response' = HTTPError(422, "Selected model is a speech-to-text model.")
               /\ rpc' = "done"
               /\ category' = category
          ELSE IF FilePresent(f)
          THEN /\ category' = classified.items[2]
               /\ IF ~Truthy(ext)
                  THEN /\ response' = HTTPError(422, "Unsupported file type.")
                       /\ rpc' = "done"
                  ELSE /\ response' = response
                       /\ rpc' = "read"
          ELSE /\ category' = category
               /\ response' = response
               /\ rpc' = "dispatch"
    /\ UNCHANGED <<req, fileRead>>
    /\ UNCHANGED pipeVars
    /\ UNCHANGED <<clsVars, backendVars, gptVars, loopVars>>

\* line 97: file_bytes = await file.read()
AskReadFile ==
    /\ rpc = "read"
    /\ fileRead' = TRUE
    /\ rpc' = "dispatch"
    /\ UNCHANGED <<req, query, file, category, response>>
    /\ UNCHANGED pipeVars
    /\ UNCHANGED <<clsVars, backendVars, gptVars, loopVars>>

\* `file_bytes and ...`: bytes were read and are not empty
FileBytesTruthy == fileRead /\ file.nonempty

\* the keyword parameters of ask_gpt (gpt_service.py lines 68-81)
AskGptParams ==
    {"query", "file_bytes", "file_filename", "prompt", "model", "max_retries",
     "initial_backoff", "max_backoff", "jitter", "delete_uploaded_file"}

\* the call passing the model as `model`, the keyword ask_gpt declares
AskGptCallKwargsDeclared == {"query", "prompt", "model"}

\* the keywords the handler passes to ask_gpt (routes.py lines 172-176)
AskGptCallKwargs == {"query", "prompt", "summary_model"}

\* a call binds only keywords the function declares; otherwise it raises TypeError
\* before the body runs
CallBinds(kwargs, params) == kwargs \subseteq params

\* the branch of lines 107-177 the request takes
Branch ==
    IF FileBytesTruthy /\ category = PyStr("video") THEN "video"
    ELSE IF FileBytesTruthy /\ category = PyStr("audio") THEN "audio"
    ELSE IF FileBytesTruthy /\ category = PyStr("text") THEN "text"
    ELSE IF FileBytesTruthy /\ category = PyStr("image") THEN "image"
    ELSE "ask_gpt"

\* lines 107-170: hand the file to its pipeline on a worker thread; the handler
\* waits for it.  An image needs a vision model: the HTTPException(422) raised
\* for it is raised inside the `try`, whose `except Exception` turns it into a 500.
AskDispatchPipeline ==
    /\ rpc = "dispatch"
    /\ Branch # "ask_gpt"
    /\ IF Branch = "image" /\ ~IsVisionModel(req.model)
       THEN /\ response' = HTTPError(500, "422: Model is not vision-capable.")
            /\ rpc' = "done"
            /\ UNCHANGED <<pipeline, ppc>>
       ELSE /\ pipeline' = Append(pipeline, Branch)
            /\ ppc' = Branch
            /\ rpc' = "await"
            /\ response' = response
    /\ UNCHANGED <<req, query, file, category, fileRead, pPending, pErr, tmpFiles, toolCalls, faults>>
    /\ UNCHANGED <<clsVars, backendVars, gptVars, loopVars>>

\* lines 172-180: result = ask_gpt(query=..., prompt=..., summary_model=...), called on
\* the event loop.  ask_gpt declares no summary_model: the call raises TypeError,
\* and `except Exception` answers 500.
AskDispatchText ==
    /\ rpc = "dispatch"
    /\ Branch = "ask_gpt"
    /\ IF CallBinds(AskGptCallKwargs, AskGptParams)
       THEN /\ pipeline' = Append(pipeline, "ask_gpt")
            /\ rpc' = "in ask_gpt"
            /\ response' = response
       ELSE /\ response' = HTTPError(500, "ask_gpt() got an unexpected keyword argument")
            /\ rpc' = "done"
            /\ pipeline' = pipeline
    /\ UNCHANGED <<req, query, file, category, fileRead, ppc, pPending, pErr, tmpFiles, toolCalls, faults>>
    /\ UNCHANGED <<clsVars, backendVars, gptVars, loopVars>>

-----------------------------------------------------------------------------
(* app/services: the four pipelines, run on a worker thread                *)

\* pathlib's Path(filename).suffix: from the last dot on, unless that dot starts
\* or ends the name
PathSuffix(cs) ==
    IF ~HasDot(cs) THEN <<>>
    ELSE LET last == CHOOSE i \in 1..Len(cs) :
                         cs[i] = "." /\ \A j \in (i + 1)..Len(cs) : cs[j] # "."
         IN  IF 1 < last /\ last < Len(cs) THEN SubSeq(cs, last, Len(cs)) ELSE <<>>

\* _ensure_pdf comparing the suffix with ".pdf" as it is, not lower-cased
StagedIsPdfCaseSensitive(filename) ==
    LET suffix == PathSuffix(filename.cs) IN
    suffix = <<>> \/ Text(suffix) = ".pdf"

\* doc_service.py lines 60-61 and 20: the staged file is upload<suffix>, with
\* ".pdf" for a name without suffix; _ensure_pdf tests its suffix, lower-cased
StagedIsPdf(filename) ==
    LET suffix == PathSuffix(filename.cs) IN
    suffix = <<>> \/ Text(Lower(suffix)) = ".pdf"

Bump(calls, tool) == [calls EXCEPT ![tool] = @ + 1]

\* the pipeline's responses.create request: one request, its error propagates
PipelineCreate(next) ==
    /\ createCalls' = createCalls + 1
    /\ LET reply == BackendReply IN
       IF reply.ok
       THEN pPending' = "return" /\ pErr' = pErr
       ELSE pPending' = "raise" /\ pErr' = reply.err
    /\ ppc' = next
    /\ UNCHANGED <<failPlan, uploadCalls, deleteCalls, remoteFiles, deletedCount>>

\* a pipeline step leaves the handler's own variables and the other components alone
PipeFrame == UNCHANGED <<rpc, req, query, file, category, fileRead, pipeline, response,
                         clsVars, gptVars, loopVars>>

\* --- image_service.py: summarise_image_file ---

\* lines 33-51: encode the bytes inline and call the model
ImageCreate ==
    /\ rpc = "await" /\ ppc = "image"
    /\ PipelineCreate("exit")
    /\ UNCHANGED <<tmpFiles, toolCalls, faults>>
    /\ PipeFrame

\* --- audio_service.py: summarise_audio ---

\* lines 21-24: write the bytes to a NamedTemporaryFile(delete=False)
AudioStage ==
    /\ rpc = "await" /\ ppc = "audio"
    /\ tmpFiles' = tmpFiles \cup {"audio"}
    /\ ppc' = "audio stt"
    /\ UNCHANGED <<pPending, pErr, toolCalls, faults>>
    /\ UNCHANGED backendVars
    /\ PipeFrame

\* lines 28-33: client.audio.transcriptions.create, one request
AudioTranscribe ==
    /\ rpc = "await" /\ ppc = "audio stt"
    /\ toolCalls' = Bump(toolCalls, "transcribe")
    /\ UNCHANGED faults
    /\ \E ok \in BOOLEAN :
        IF ok THEN ppc' = "audio create" /\ pPending' = pPending
        ELSE ppc' = "audio finally" /\ pPending' = "raise"
    /\ UNCHANGED <<pErr, tmpFiles>>
    /\ UNCHANGED backendVars
    /\ PipeFrame

\* lines 36-42: client.responses.create
AudioCreate ==
    /\ rpc = "await" /\ ppc = "audio create"
    /\ PipelineCreate("audio finally")
    /\ UNCHANGED <<tmpFiles, toolCalls, faults>>
    /\ PipeFrame

\* lines 44-49: finally: audio_path.unlink(missing_ok=True), a failure swallowed
AudioFinally ==
    /\ rpc = "await" /\ ppc = "audio finally"
    /\ \E ok \in BOOLEAN :
        IF ok THEN tmpFiles' = tmpFiles \ {"audio"} /\ faults' = faults
        ELSE tmpFiles' = tmpFiles /\ faults' = faults \cup {"audio"}
    /\ ppc' = "exit"
    /\ UNCHANGED <<pPending, pErr, toolCalls>>
    /\ UNCHANGED backendVars
    /\ PipeFrame

\* --- video_service.py: summarise_video ---

\* lines 20-24: write the bytes to a NamedTemporaryFile(delete=False)
VideoStage ==
    /\ rpc = "await" /\ ppc = "video"
    /\ tmpFiles' = tmpFiles \cup {"video"}
    /\ ppc' = "video ffmpeg"
    /\ UNCHANGED <<pPending, pErr, toolCalls, faults>>
    /\ UNCHANGED backendVars
    /\ PipeFrame

\* subprocess.run without check=True: a nonzero exit of ffmpeg is not raised and
\* the pipeline goes on to transcribe whatever .wav there is
VideoDemuxExitIgnored ==
    /\ rpc = "await" /\ ppc = "video ffmpeg"
    /\ toolCalls' = Bump(toolCalls, "ffmpeg")
    /\ \E ok \in BOOLEAN, wav \in BOOLEAN :
        /\ ok => wav
        /\ tmpFiles' = IF wav THEN tmpFiles \cup {"wav"} ELSE tmpFiles
        /\ faults' = IF ok THEN faults ELSE faults \cup {"ffmpeg nonzero"}
    /\ ppc' = "video stt"
    /\ UNCHANGED <<pPending, pErr>>
    /\ UNCHANGED backendVars
    /\ PipeFrame

\* lines 26-33: subprocess.run(ffmpeg ..., check=True); a nonzero exit raises, and
\* may or may not have left a partial .wav behind
VideoDemux ==
    /\ rpc = "await" /\ ppc = "video ffmpeg"
    /\ toolCalls' = Bump(toolCalls, "ffmpeg")
    /\ \E ok \in BOOLEAN, wav \in BOOLEAN :
        /\ ok => wav
        /\ tmpFiles' = IF wav THEN tmpFiles \cup {"wav"} ELSE tmpFiles
        /\ faults' = IF ok THEN faults ELSE faults \cup {"ffmpeg nonzero"}
        /\ IF ok THEN ppc' = "video stt" /\ pPending' = pPending
           ELSE ppc' = "video finally" /\ pPending' = "raise"
    /\ UNCHANGED pErr
    /\ UNCHANGED backendVars
    /\ PipeFrame

\* lines 35-41: client.audio.transcriptions.create, one request
VideoTranscribe ==
    /\ rpc = "await" /\ ppc = "video stt"
    /\ toolCalls' = Bump(toolCalls, "transcribe")
    /\ UNCHANGED faults
    /\ \E ok \in BOOLEAN :
        IF ok THEN ppc' = "video create" /\ pPending' = pPending
        ELSE ppc' = "video finally" /\ pPending' = "raise"
    /\ UNCHANGED <<pErr, tmpFiles>>
    /\ UNCHANGED backendVars
    /\ PipeFrame

\* lines 43-51: client.responses.create
VideoCreate ==
    /\ rpc = "await" /\ ppc = "video create"
    /\ PipelineCreate("video finally")
    /\ UNCHANGED <<tmpFiles, toolCalls, faults>>
    /\ PipeFrame

\* the `finally` block looping over the video alone: the .wav is never unlinked
VideoFinallyVideoOnly ==
    /\ rpc = "await" /\ ppc = "video finally"
    /\ \E stuck \in SUBSET (tmpFiles \cap {"video"}) :
        /\ tmpFiles' = (tmpFiles \ {"video"}) \cup stuck
        /\ faults' = faults \cup stuck
    /\ ppc' = "exit"
    /\ UNCHANGED <<pPending, pErr, toolCalls>>
    /\ UNCHANGED backendVars
    /\ PipeFrame

\* lines 53-60: finally: unlink the video and the .wav if they exist, each
\* failure swallowed
VideoFinally ==
    /\ rpc = "await" /\ ppc = "video finally"
    /\ \E stuck \in SUBSET (tmpFiles \cap {"video", "wav"}) :
        /\ tmpFiles' = (tmpFiles \ {"video", "wav"}) \cup stuck
        /\ faults' = faults \cup stuck
    /\ ppc' = "exit"
    /\ UNCHANGED <<pPending, pErr, toolCalls>>
    /\ UNCHANGED backendVars
    /\ PipeFrame

\* --- doc_service.py: summarise_document_file ---

\* lines 56-62: a TemporaryDirectory, the bytes written to upload<suffix> in it
DocStage ==
    /\ rpc = "await" /\ ppc = "text"
    /\ tmpFiles' = tmpFiles \cup {"docdir", "docdir/upload"}
    /\ ppc' = "doc ensure"
    /\ UNCHANGED <<pPending, pErr, toolCalls, faults>>
    /\ UNCHANGED backendVars
    /\ PipeFrame

\* the ways one soffice run ends (doc_service.py lines 32-40), and "absent" for
\* shutil.which finding no soffice (lines 23-24)
ConverterOutcomes == {"absent", "converted", "nonzero", "timeout", "no pdf"}

\* lines 15-40 and 65: _ensure_pdf returns a PDF as it is, and runs soffice once
\* on anything else
DocEnsurePdf ==
    /\ rpc = "await" /\ ppc = "doc ensure"
    /\ IF StagedIsPdf(file.filename)
       THEN /\ ppc' = "doc upload"
            /\ UNCHANGED <<pPending, tmpFiles, toolCalls, faults>>
       ELSE \E out \in ConverterOutcomes :
            /\ toolCalls' = IF out = "absent" THEN toolCalls ELSE Bump(toolCalls, "soffice")
            /\ faults' = IF out = "absent" THEN faults \cup {"no soffice"}
                         ELSE IF out = "converted" THEN faults
                         ELSE faults \cup {"soffice " \o out}
            /\ tmpFiles' = IF out = "converted" THEN tmpFiles \cup {"docdir/pdf"} ELSE tmpFiles
            /\ IF out = "converted" THEN ppc' = "doc upload" /\ pPending' = pPending
               ELSE ppc' = "doc exit" /\ pPending' = "raise"
    /\ UNCHANGED pErr
    /\ UNCHANGED backendVars
    /\ PipeFrame

\* lines 67-70: client.files.create(file=f, purpose="user_data")
DocUpload ==
    /\ rpc = "await" /\ ppc = "doc upload"
    /\ uploadCalls' = uploadCalls + 1
    /\ \E ok \in BOOLEAN :
        IF ok
        THEN /\ remoteFiles' = remoteFiles \cup {uploadCalls + 1}
             /\ ppc' = "doc create"
             /\ pPending' = pPending
        ELSE /\ remoteFiles' = remoteFiles
             /\ ppc' = "doc exit"
             /\ pPending' = "raise"
    /\ UNCHANGED <<pErr, tmpFiles, toolCalls, faults>>
    /\ UNCHANGED <<failPlan, createCalls, deleteCalls, deletedCount>>
    /\ PipeFrame

\* lines 73-85: client.responses.create, return resp.output_text
DocCreate ==
    /\ rpc = "await" /\ ppc = "doc create"
    /\ PipelineCreate("doc exit")
    /\ UNCHANGED <<tmpFiles, toolCalls, faults>>
    /\ PipeFrame

\* line 56: leaving `with tempfile.TemporaryDirectory()` removes the directory
DocExit ==
    /\ rpc = "await" /\ ppc = "doc exit"
    /\ tmpFiles' = tmpFiles \ {"docdir", "docdir/upload", "docdir/pdf"}
    /\ ppc' = "exit"
    /\ UNCHANGED <<pPending, pErr, toolCalls, faults>>
    /\ UNCHANGED backendVars
    /\ PipeFrame

\* --- back in the handler ---

\* lines 118, 130, 159, 170, 178-180: the awaited pipeline returned its summary, or
\* raised and `except Exception` answers 500
AskRespond ==
    /\ rpc = "await" /\ ppc = "exit"
    /\ response' = IF pPending = "return" THEN PlainTextResponse
                   ELSE HTTPError(500, "pipeline raised")
    /\ rpc' = "done"
    /\ ppc' = "idle"
    /\ UNCHANGED <<req, query, file, category, fileRead, pipeline, pPending, pErr,
                   tmpFiles, toolCalls, faults>>
    /\ UNCHANGED <<clsVars, backendVars, gptVars, loopVars>>

-----------------------------------------------------------------------------
(* The specifications.                                                     *)

ClsIdle ==
    /\ clsSegs = <<>>
    /\ clsName = PyNone
    /\ clsResult = NotCalled

ReqIdle ==
    /\ rpc = "idle"
    /\ req = [query |-> PyNone, model |-> <<>>, file |-> NoFile]
    /\ query = PyNone
    /\ file = NoFile
    /\ category = PyNone
    /\ fileRead = FALSE
    /\ pipeline = <<>>
    /\ ppc = "idle"
    /\ pPending = "none"
    /\ pErr = NoErr
    /\ tmpFiles = {}
    /\ toolCalls = NoToolCalls
    /\ faults = {}
    /\ response = NoResponse
    /\ rpc2 = "idle"

\* one POST /ask request, from the form fields to the response
Init ==
    /\ ClsIdle
    /\ BackendInit
    /\ failPlan \in SeqsBetween(ErrKinds, 0, MaxReqFail)
    /\ GptIdle
    /\ ReqInit

Next ==
    \/ AskValidate
    \/ AskReadFile
    \/ AskDispatchPipeline
    \/ AskDispatchText
    \/ ImageCreate
    \/ AudioStage
    \/ AudioTranscribe
    \/ AudioCreate
    \/ AudioFinally
    \/ VideoStage
    \/ VideoDemux
    \/ VideoTranscribe
    \/ VideoCreate
    \/ VideoFinally
    \/ DocStage
    \/ DocEnsurePdf
    \/ DocUpload
    \/ DocCreate
    \/ DocExit
    \/ AskRespond

Spec == Init /\ [][Next]_vars

-----------------------------------------------------------------------------
(* Two requests on one event loop.  A handler runs on the event-loop       *)
(* thread from one `await` to the next, which the steps above take as one  *)
(* action each; a pipeline handed to run_in_threadpool runs on a worker    *)
(* thread while its handler is suspended.  A call the handler makes        *)
(* without `await` keeps the event-loop thread until it returns.           *)

\* the first request's handler is inside ask_gpt, called without await at
\* routes.py line 172: the event-loop thread is taken until ask_gpt returns
LoopBlocked == rpc = "in ask_gpt"

\* the second request's handler runs up to its `await run_in_threadpool(...)`, or
\* from there to its response; either needs the event-loop thread
Ask2LoopStep ==
    /\ ~LoopBlocked
    /\ rpc2 \in {"recv", "respond"}
    /\ rpc2' = IF rpc2 = "recv" THEN "await" ELSE "done"
    /\ UNCHANGED <<clsVars, backendVars, gptVars, reqVars>>

\* the second request's pipeline runs to its end on a worker thread
Ask2WorkerStep ==
    /\ rpc2 = "await"
    /\ rpc2' = "respond"
    /\ UNCHANGED <<clsVars, backendVars, gptVars, reqVars>>

\* the requests with one model name, without or with a question
ConcurrentRequests ==
    {r \in Requests : r.model = <<"g", "p", "t", "-", "4", "o">>
                        /\ r.query \in {PyNone, PyChars(<<"W", "h", "a", "t", " ", "i", "s", " ", "A", "I", "?">>)}}

InitConcurrent ==
    /\ ClsIdle
    /\ BackendInit
    /\ failPlan \in SeqsBetween(ErrKinds, 0, MaxReqFail)
    /\ GptIdle
    /\ req \in ConcurrentRequests
    /\ ReqStart
    /\ rpc2 = "recv"

NextConcurrent ==
    \/ Next
    \/ Ask2LoopStep
    \/ Ask2WorkerStep

SpecConcurrent == InitConcurrent /\ [][NextConcurrent]_vars

\* one direct call of ask_gpt against the scripted backend
InitGpt ==
    /\ ClsIdle
    /\ BackendInit
    /\ failPlan \in SeqsBetween(ErrKinds, 0, MaxFail)
    /\ GptInit
    /\ ReqIdle

NextGpt ==
    \/ GptPrepareText
    \/ GptPrepareUpload
    \/ GptAttempt
    \/ GptFinallySkip
    \/ GptFinallyDelete

SpecGpt == InitGpt /\ [][NextGpt]_vars

\* ask_gpt called with its backoff settings chosen by the caller
InitBackoff ==
    /\ ClsIdle
    /\ BackendInit
    /\ failPlan \in SeqsBetween(ErrKinds, 0, MaxFail)
    /\ gArgs \in BackoffArgs
    /\ GptStart
    /\ ReqIdle

SpecBackoff == InitBackoff /\ [][NextGpt]_vars

\* either of the two: a request served by the handler and its pipelines, or
\* ask_gpt called directly
InitEither == Init \/ InitGpt

NextEither ==
    \/ Next
    \/ NextGpt

SpecEither == InitEither /\ [][NextEither]_vars

\* one call of extract_ext_category
InitClassify ==
    /\ ClsInit
    /\ BackendInit
    /\ failPlan = <<>>
    /\ GptIdle
    /\ ReqIdle

NextClassify == Classify

SpecClassify == InitClassify /\ [][NextClassify]_vars

-----------------------------------------------------------------------------
(* The claims about ask_gpt, checked under SpecGpt.                        *)

RateLimit == [cls |-> "RateLimitError", status |-> {429}]

\* the call got past its preparation: it had content and its upload, if any, succeeded
ReachedBackend == gOutcome.exc \notin {"ValueError", "OpenAIError"}

\* C1: when the backend raises a rate-limit error on exactly the first N requests
\* and then succeeds, and max_retries allows N retries, ask_gpt returns the
\* success result after exactly N + 1 responses.create requests.
C1_RetriesThenSucceeds ==
    ( /\ gpc = "done"
      /\ ReachedBackend
      /\ \A i \in 1..Len(failPlan) : failPlan[i] = RateLimit
      /\ gArgs.max_retries >= Len(failPlan) )
    => /\ gOutcome = Returned
       /\ createCalls = Len(failPlan) + 1

\* a call that returned after two rate-limit failures, with max_retries of exactly 2
C1_Witness ==
    /\ gpc = "done"
    /\ failPlan = <<RateLimit, RateLimit>>
    /\ gArgs.max_retries = 2
    /\ gOutcome = Returned
    /\ createCalls = 3
    /\ sleeps = 2

\* not retryable in the claim's words: neither a connection error nor a rate-limit
\* error, and no status of 429 or 500..599
NotRetryableError(e) ==
    /\ e.cls \notin {"APIConnectionError", "RateLimitError"}
    /\ e.status \cap ({429} \cup 500..599) = {}

\* C2: when the backend's first failure is not retryable, ask_gpt issues exactly
\* one request, never sleeps, and raises its terminal error.
C2_NonRetryableFailsAtOnce ==
    (failPlan # <<>> /\ NotRetryableError(failPlan[1]))
    => /\ createCalls <= 1
       /\ sleeps = 0
       /\ (gpc = "done" /\ ReachedBackend)
            => /\ createCalls = 1
               /\ gOutcome = Raised("RuntimeError", 0, failPlan[1])

\* a call allowed two retries that met a 400 and raised after its only request
C2_Witness ==
    /\ gpc = "done"
    /\ failPlan # <<>>
    /\ failPlan[1] = [cls |-> "APIStatusError", status |-> {400}]
    /\ gArgs.max_retries = 2
    /\ createCalls = 1
    /\ gOutcome.kind = "raised"

\* the call staged a remote handle and is to delete it
StagedForDeletion == ReferencedFiles # {} /\ gArgs.delete_uploaded_file

\* C3 as stated: whenever a call that staged a handle has returned or raised, the
\* handle has been deleted exactly once.
C3_DeletedExactlyOnce ==
    (gpc = "done" /\ StagedForDeletion) => deletedCount = 1 /\ remoteFiles = {}

\* C3 amended: the handle is never deleted twice, and by the time the call
\* returns or raises it has been deleted exactly once unless every files.delete
\* request raised: then one request was made after each attempt, each failure was
\* swallowed, and the handle is still on the backend.
C3_DeletedOnceUnlessDeleteFails ==
    /\ deletedCount <= 1
    /\ (gpc = "done" /\ StagedForDeletion)
        => \/ deletedCount = 1 /\ remoteFiles = {}
           \/ /\ deletedCount = 0
              /\ deleteCalls = createCalls
              /\ remoteFiles = ReferencedFiles

\* a call that staged a handle, succeeded on its third attempt and deleted the
\* handle once, at its second files.delete request
C3_Witness ==
    /\ gpc = "done"
    /\ StagedForDeletion
    /\ gOutcome = Returned
    /\ createCalls = 3
    /\ deleteCalls = 2
    /\ deletedCount = 1

-----------------------------------------------------------------------------
(* The claims about extract_ext_category, checked under SpecClassify.  What *)
(* a filename should classify as is read off the segments it was built     *)
(* from, not off the classifier.                                           *)

LastSeg(segs) == segs[Len(segs)]

\* the name has no dot at all (None and "" included)
NoExtension(segs) == Len(segs) <= 1

\* the name's final extension is not in the extension table
UnknownExtension(segs) ==
    Len(segs) >= 2 /\ LastSeg(segs).canon \notin DOMAIN CATEGORY_BY_EXT

\* the name ends in .tar.gz, .tar.bz2 or .tar.xz, in any letter case
CompoundSuffixed(segs) ==
    /\ Len(segs) >= 3
    /\ segs[Len(segs) - 1].canon = "tar"
    /\ LastSeg(segs).canon \in {"gz", "bz2", "xz"}

\* C6: extract_ext_category returns (None, None) for every filename without an
\* extension and for every filename whose final extension is not in the table.
C6_UnsupportedIsNone ==
    (clsResult # NotCalled /\ (NoExtension(clsSegs) \/ UnknownExtension(clsSegs)))
    => clsResult = PyTuple(PyNone, PyNone)

\* C7: for a filename ending in a recognised extension, in any letter case,
\* extract_ext_category returns (extension, category of the table); for a name
\* ending in a compound archive suffix it returns (compound suffix, "archive").
C7_RecognisedExtension ==
    clsResult # NotCalled =>
        /\ CompoundSuffixed(clsSegs)
            => clsResult = PyTuple(PyStr("tar." \o LastSeg(clsSegs).canon), PyStr("archive"))
        /\ ( /\ ~CompoundSuffixed(clsSegs)
             /\ Len(clsSegs) >= 2
             /\ LastSeg(clsSegs).canon \in DOMAIN CATEGORY_BY_EXT )
            => clsResult = PyTuple(PyStr(LastSeg(clsSegs).canon),
                                   PyStr(CATEGORY_BY_EXT[LastSeg(clsSegs).canon]))

\* "Report.tar.GZ" classified as ("tar.gz", "archive")
C7_Witness ==
    /\ clsName = PyChars(<<"R", "e", "p", "o", "r", "t", ".", "t", "a", "r", ".", "G", "Z">>)
    /\ clsResult = PyTuple(PyStr("tar.gz"), PyStr("archive"))

-----------------------------------------------------------------------------
(* The claims about POST /ask, checked under Spec.                         *)

AQuestion == PyChars(<<"W", "h", "a", "t", " ", "i", "s", " ", "A", "I", "?">>)

\* requests the backend was sent: model calls, uploads, deletions, transcriptions
BackendRequests == createCalls + uploadCalls + deleteCalls + toolCalls.transcribe

\* C4: a request with a non-blank query, no file and an allowed model, whose
\* model call the backend answers with text, is answered {"answer": <text>}.
C4_TextOnlyAnswers ==
    ( /\ rpc = "done"
      /\ req.query = AQuestion
      /\ req.file.kind = "missing"
      /\ req.model \in ModelName
      /\ failPlan = <<>> )
    => response = JSONResponse

\* C5: a request whose file has an extension outside the table is answered 422
\* before the file is read, before any pipeline runs and before any backend request.
C5_UnknownExtensionRejected ==
    ( /\ rpc = "done"
      /\ req.file.kind = "upload"
      /\ UnknownExtension(req.file.segs) )
    => /\ response.status = 422
       /\ ~fileRead
       /\ pipeline = <<>>
       /\ BackendRequests = 0

\* the uploaded file's category is archive
ArchiveUpload ==
    /\ req.file.kind = "upload"
    /\ Len(req.file.segs) >= 2
    /\ LastSeg(req.file.segs).canon \in ARCHIVE_EXTS

\* C8: a request whose file is an archive is rejected as a client-input error, and
\* no pipeline, tool or backend request is attempted for it.
C8_ArchiveRejected ==
    (rpc = "done" /\ ArchiveUpload)
    => /\ response.status \in 400..499
       /\ pipeline = <<>>
       /\ BackendRequests = 0
       /\ toolCalls = NoToolCalls

\* transient in the claim's words: a connection error, a rate limit, a status of
\* 429 or 5xx
TransientError(e) ==
    \/ e.cls \in {"APIConnectionError", "RateLimitError"}
    \/ e.status \cap ({429} \cup 500..599) # {}

\* C10: a model call made for a request is retried on a transient failure: when
\* the backend raises one transient error and then answers, the request that made
\* the call sends a second request and is answered with the result.
C10_PipelineCallsRetried ==
    ( /\ rpc = "done"
      /\ createCalls >= 1
      /\ Len(failPlan) = 1
      /\ TransientError(failPlan[1]) )
    => /\ createCalls = 2
       /\ response.status = 200

\* every value of ModelName passes _is_vision_model, so the handler's branch for
\* an image with a model that is not vision-capable is never taken
EveryModelNameIsVision == \A m \in ModelName : IsVisionModel(m)

\* C11: every remote file handle created while a request is served, the handle of
\* the document pipeline's upload included, has been deleted by the time the
\* request is answered, whether it succeeded or failed.
C11_HandlesDeletedByTheEnd ==
    rpc = "done" => remoteFiles = {}

-----------------------------------------------------------------------------
(* More claims about ask_gpt on its own, checked under SpecGpt.            *)

\* every failure the backend is scripted to raise is one ask_gpt retries
AlwaysRetryable == \A i \in 1..Len(failPlan) : IsRetryable(failPlan[i])

\* C12: ask_gpt never issues more than max_retries + 1 model requests and never
\* sleeps more than max_retries times; until it has returned or raised it always
\* has a next step; and against a backend that fails retryably on each of its
\* first max_retries + 1 requests it stops at exactly that many requests and
\* raises its terminal error.
C12_TerminatesAtCeiling ==
    /\ createCalls <= gArgs.max_retries + 1
    /\ sleeps <= gArgs.max_retries
    /\ attempt <= gArgs.max_retries
    /\ gpc \notin {"idle", "done"} => ENABLED NextGpt
    /\ ( /\ gpc = "done"
         /\ ReachedBackend
         /\ AlwaysRetryable
         /\ Len(failPlan) >= gArgs.max_retries + 1 )
        => /\ createCalls = gArgs.max_retries + 1
           /\ gOutcome.kind = "raised"
           /\ gOutcome.exc = "RuntimeError"

\* a call allowed two retries met three retryable failures and raised after its
\* third request, having slept twice
C12_Witness ==
    /\ gpc = "done"
    /\ gArgs.max_retries = 2
    /\ Len(failPlan) = 3
    /\ AlwaysRetryable
    /\ createCalls = 3
    /\ sleeps = 2
    /\ gOutcome.kind = "raised"
    /\ gOutcome.exc = "RuntimeError"

\* the call raised the terminal error of its retry loop
RaisedTerminalError ==
    gpc = "done" /\ gOutcome.kind = "raised" /\ gOutcome.exc = "RuntimeError"

\* C13 as stated: the terminal error wraps the last backend failure and the count
\* it reports equals the number of model requests the call made.
C13_ReportsAttemptsMade ==
    RaisedTerminalError
    => /\ gOutcome.cause = failPlan[createCalls]
       /\ gOutcome.retries = createCalls

\* C13 amended: the terminal error wraps the last backend failure, and the count
\* it reports is the number of retries, one less than the number of model
\* requests the call made.
C13_ReportsRetriesMade ==
    RaisedTerminalError
    => /\ createCalls >= 1
       /\ createCalls <= Len(failPlan)
       /\ gOutcome.cause = failPlan[createCalls]
       /\ gOutcome.retries = createCalls - 1

\* a call that raised after three requests, reporting 2 and wrapping the third
\* failure, which differs from the first
C13_Witness ==
    /\ RaisedTerminalError
    /\ createCalls = 3
    /\ gOutcome.retries = 2
    /\ gOutcome.cause = failPlan[3]
    /\ failPlan[3] # failPlan[1]

-----------------------------------------------------------------------------
(* The claim about the backoff delay, checked under SpecBackoff.  Times    *)
(* are in milliseconds, the jitter in hundredths.                          *)

\* the pre-jitter delays of the sleeps so far never decrease from one to the next
BasesNonDecreasing == \A i \in 1..(Len(bases) - 1) : bases[i] <= bases[i + 1]

\* C14 as stated: the pre-jitter delay is non-decreasing in the attempt number,
\* and the delay slept before a retry never exceeds max_backoff.
C14_SleepWithinMaxBackoff ==
    /\ BasesNonDecreasing
    /\ sleeps > 0 => delay <= gArgs.max_backoff

\* C14 amended: the pre-jitter delay is non-decreasing in the attempt number and
\* never exceeds max_backoff; the delay slept is at least the 0.1 s floor and at
\* most max_backoff * (1 + jitter), or the floor when that is smaller.
C14_SleepWithinJitteredMax ==
    /\ Len(bases) = sleeps
    /\ BasesNonDecreasing
    /\ \A i \in 1..Len(bases) : bases[i] <= gArgs.max_backoff
    /\ sleeps > 0
        => /\ delay >= 100
           /\ \/ delay = 100
              \/ delay * 100 <= gArgs.max_backoff * (100 + gArgs.jitter)

\* a call with initial_backoff 1.0, max_backoff 1.5 and jitter 0.25 slept twice,
\* the second time on a base at the ceiling, for 1.875 s
C14_Witness ==
    /\ gArgs.max_backoff = 1500
    /\ bases = <<1000, 1500>>
    /\ delay = 1875

-----------------------------------------------------------------------------
(* More claims about POST /ask and its pipelines, checked under Spec.      *)

\* a pipeline ran for the request and has returned or raised
PipelineOver == pipeline # <<>> /\ (ppc = "exit" \/ rpc = "done")

\* C15 as stated: once a pipeline has returned or raised, none of the temporary
\* files and directories it created exists any more.
C15_TempFilesGone ==
    PipelineOver => tmpFiles = {}

\* C15 amended: once a pipeline has returned or raised, whichever step failed,
\* the only temporary files still on disk are those whose unlink itself raised
\* in the audio or video pipeline's `finally`; the document pipeline's working
\* directory and everything in it are gone.
C15_TempFilesGoneUnlessUnlinkFails ==
    PipelineOver
    => /\ tmpFiles = faults \cap {"audio", "video", "wav"}
       /\ pipeline = <<"audio">> => tmpFiles \subseteq {"audio"}
       /\ pipeline = <<"video">> => tmpFiles \subseteq {"video", "wav"}
       /\ pipeline = <<"text">> => tmpFiles = {}

\* the video pipeline raised at its transcription request and exited with the
\* staged video and the .wav both removed
C15_Witness ==
    /\ ppc = "exit"
    /\ pipeline = <<"video">>
    /\ toolCalls.ffmpeg = 1
    /\ toolCalls.transcribe = 1
    /\ createCalls = 0
    /\ pPending = "raise"
    /\ faults = {}
    /\ tmpFiles = {}

\* the query field as sent holds nothing to answer: None, empty, blank, or the
\* placeholder "string" in some letter case
QueryAbsent(q) ==
    q \in { PyNone, PyChars(<<>>), PyChars(<<" ">>),
            PyChars(<<"S", "t", "r", "i", "n", "g">>) }

\* the file field as sent holds no file: missing, a string, or an upload whose
\* filename is empty
FileAbsent(f) ==
    \/ f.kind \in {"missing", "str"}
    \/ f.kind = "upload" /\ Len(f.segs) = 1 /\ f.segs[1].chars = <<>>

\* C16: a request whose query and file are both absent is answered 422 with
\* nothing classified, no file read, no pipeline invoked and no backend request.
C16_NothingToProcessRejected ==
    (QueryAbsent(req.query) /\ FileAbsent(req.file))
    => /\ rpc \in {"recv", "done"}
       /\ category = PyNone
       /\ ~fileRead
       /\ pipeline = <<>>
       /\ BackendRequests = 0
       /\ toolCalls = NoToolCalls
       /\ rpc = "done" => response = HTTPError(422, "Provide at least query or file.")

\* the placeholder query sent with an upload whose filename is empty, rejected
C16_Witness ==
    /\ rpc = "done"
    /\ req.query = PyChars(<<"S", "t", "r", "i", "n", "g">>)
    /\ req.file.kind = "upload"
    /\ req.file.filename = PyChars(<<>>)
    /\ response.status = 422

\* the uploaded file's category is video, audio or image
MediaUpload ==
    /\ req.file.kind = "upload"
    /\ Len(req.file.segs) >= 2
    /\ LastSeg(req.file.segs).canon \in VIDEO_EXTS \cup AUDIO_EXTS \cup IMAGE_EXTS

\* C17: a request that carries both a query and a video, audio or image file
\* never reaches a pipeline.
C17_QueryWithMediaReachesNoPipeline ==
    (req.query = AQuestion /\ MediaUpload) => pipeline = <<>>

-----------------------------------------------------------------------------
(* The claim about two concurrent requests, checked under SpecConcurrent.  *)

\* the first request has blocking work under way: its pipeline on a worker, or
\* ask_gpt called from the handler
BlockingWork == rpc \in {"await", "in ask_gpt"}

-----------------------------------------------------------------------------
(* The claim about the document pipeline's converter, checked under Spec.  *)

\* the file the document pipeline stages has the extension .pdf: the upload's
\* final extension is pdf in some letter case, or its name is a dot followed by
\* an extension, which pathlib takes to have no suffix and is staged as upload.pdf
StagedAsPdf(segs) ==
    \/ LastSeg(segs).canon = "pdf"
    \/ Len(segs) = 2 /\ segs[1].chars = <<>>

\* the document pipeline ran for the request and _ensure_pdf is over
ConversionOver ==
    pipeline = <<"text">> /\ ppc \notin {"text", "doc ensure"}

\* C19 as stated: soffice is never run when the staged file has the extension
\* .pdf, and is run exactly once when it has any other.
C19_ConverterOnceUnlessPdf ==
    /\ toolCalls.soffice <= 1
    /\ ConversionOver
        => toolCalls.soffice = IF StagedAsPdf(req.file.segs) THEN 0 ELSE 1

\* C19 amended: soffice is never run when the staged file has the extension
\* .pdf; for any other extension it is run exactly once, with no retry, unless
\* no soffice is installed: then it is not run, the pipeline raises and nothing
\* is uploaded.
C19_ConverterOnceIfInstalled ==
    /\ toolCalls.soffice <= 1
    /\ ConversionOver
        => IF StagedAsPdf(req.file.segs)
           THEN toolCalls.soffice = 0 /\ "no soffice" \notin faults
           ELSE IF "no soffice" \in faults
           THEN toolCalls.soffice = 0 /\ pPending = "raise" /\ uploadCalls = 0
           ELSE toolCalls.soffice = 1

\* notes.docx was converted by one soffice run and summarised
C19_Witness ==
    /\ rpc = "done"
    /\ req.file.filename = PyChars(<<"n", "o", "t", "e", "s", ".", "d", "o", "c", "x">>)
    /\ pipeline = <<"text">>
    /\ toolCalls.soffice = 1
    /\ response.status = 200

-----------------------------------------------------------------------------
(* The claim about the staged handle across retries, checked under SpecGpt. *)

\* C20: every model request ask_gpt issues whose input references a staged file
\* handle is issued while that handle still exists on the backend.
C20_HandlePresentAtEveryAttempt ==
    staleAttempts = 0

-----------------------------------------------------------------------------
(* The claim about a failing external tool, checked under Spec.            *)

\* the ways an external tool that was run can fail: ffmpeg exits nonzero; soffice
\* exits nonzero, runs into its timeout, or leaves no PDF
ToolFailures == {"ffmpeg nonzero", "soffice nonzero", "soffice timeout", "soffice no pdf"}

\* an external tool was run for the request and failed
ToolFailed == faults \cap ToolFailures # {}

\* what holds from a tool's failure on: the tool was run once and no other, no
\* upload, transcription or model request is made, the pipeline is raising, and
\* the request, once answered, is answered with an error
FailedToolEndsPipeline ==
    /\ toolCalls.ffmpeg + toolCalls.soffice = 1
    /\ BackendRequests = 0
    /\ pPending = "raise"
    /\ rpc = "done" => response.status = 500

\* C21 as stated: after an external tool failure the tool is not run again, no
\* upload, transcription or model call is made, the pipeline raises, and its
\* temporary files are removed.
C21_ToolFailureIsFatal ==
    ToolFailed
    => /\ FailedToolEndsPipeline
       /\ PipelineOver => tmpFiles = {}

\* C21 amended: after an external tool failure the tool is not run again, no
\* upload, transcription or model call is made, and the pipeline raises; its
\* temporary files are removed, except a video or .wav whose unlink raised.
C21_ToolFailureIsFatalCleanupAttempted ==
    ToolFailed
    => /\ FailedToolEndsPipeline
       /\ PipelineOver => /\ tmpFiles = faults \cap {"video", "wav"}
                          /\ pipeline = <<"text">> => tmpFiles = {}

\* soffice ran into its timeout: the request was answered 500 after that one run,
\* with nothing uploaded and the working directory removed
C21_Witness ==
    /\ rpc = "done"
    /\ faults = {"soffice timeout"}
    /\ toolCalls.soffice = 1
    /\ uploadCalls = 0
    /\ createCalls = 0
    /\ response.status = 500
    /\ tmpFiles = {}

-----------------------------------------------------------------------------
(* The claim about failing cleanup, checked under SpecEither: ask_gpt's    *)
(* files.delete, and the unlinks of the audio and video pipelines.         *)

\* the backend's i-th failure ends ask_gpt's retry loop: it is not transient, or
\* the retries are used up
EndsRetryLoop(i) == ~TransientError(failPlan[i]) \/ i > gArgs.max_retries

\* what ask_gpt's model requests produce, read off the backend's script and
\* max_retries alone: the terminal error for the first failure that ends the
\* loop, the answer if there is none
PrimaryOutcome ==
    IF \E i \in 1..Len(failPlan) : EndsRetryLoop(i)
    THEN LET i == CHOOSE k \in 1..Len(failPlan) :
                      EndsRetryLoop(k) /\ \A j \in 1..(k - 1) : ~EndsRetryLoop(j)
         IN  [kind |-> "raised", exc |-> "RuntimeError", retries |-> i - 1,
              cause |-> failPlan[i]]
    ELSE [kind |-> "returned", exc |-> "", retries |-> 0, cause |-> NoErr]

\* a files.delete request of the call raised
DeleteRaised == deleteCalls > deletedCount

\* an unlink in the audio or video pipeline's `finally` raised
UnlinkRaised == faults \cap {"audio", "video", "wav"} # {}

\* the audio or video pipeline's work succeeded: its model request was made and
\* answered
PrimaryWorkAnswered == createCalls = 1 /\ failPlan = <<>>

\* C22: when a files.delete request of ask_gpt raised, the call still returns or
\* raises exactly what its model requests produced; when an unlink of the audio
\* or video pipeline raised, the request is still answered with the pipeline's
\* result if its work succeeded and with its error if not.
C22_CleanupFailureKeepsOutcome ==
    /\ (gpc = "done" /\ createCalls >= 1 /\ DeleteRaised)
        => gOutcome = PrimaryOutcome
    /\ (rpc = "done" /\ pipeline \in {<<"audio">>, <<"video">>} /\ UnlinkRaised)
        => response = IF PrimaryWorkAnswered THEN PlainTextResponse
                      ELSE HTTPError(500, "pipeline raised")

\* a call that staged a handle was answered at its second request and returned
\* the answer, although both of its files.delete requests raised
C22_Witness ==
    /\ gpc = "done"
    /\ createCalls = 2
    /\ deleteCalls = 2
    /\ deletedCount = 0
    /\ remoteFiles # {}
    /\ gOutcome = Returned

-----------------------------------------------------------------------------
(* The claim about dispatch, checked under Spec.                           *)

\* the pipeline that matches what the request carries: the one of the uploaded
\* file's category, the text-only one when there is no file
MatchingPipeline ==
    IF FileAbsent(req.file) THEN "ask_gpt"
    ELSE CATEGORY_BY_EXT[LastSeg(req.file.segs).canon]

\* the request is one the handler is to accept: it carries a query or a file,
\* and a file it carries is of a category that has a pipeline
Accepted ==
    IF FileAbsent(req.file) THEN ~QueryAbsent(req.query)
    ELSE /\ Len(req.file.segs) >= 2
         /\ LastSeg(req.file.segs).canon
                \in VIDEO_EXTS \cup AUDIO_EXTS \cup TEXT_EXTS \cup IMAGE_EXTS

\* the handler called ask_gpt, the text-only pipeline, for the request: the call
\* is answered with the error of its keyword
TextOnlyCalled ==
    response = HTTPError(500, "ask_gpt() got an unexpected keyword argument")

\* the pipelines the dispatcher invoked for the request, the text-only one
\* counted from the handler's call of it
Invoked == IF TextOnlyCalled THEN Append(pipeline, "ask_gpt") ELSE pipeline

\* C23: no request reaches two pipelines, and for an accepted request, once
\* answered, the dispatcher has invoked exactly one pipeline: the matching one,
\* which for a file of a supported category is never the text-only one.
C23_ExactlyTheMatchingPipeline ==
    /\ Len(Invoked) <= 1
    /\ (rpc = "done" /\ Accepted) => Invoked = <<MatchingPipeline>>

=============================================================================
